---- MODULE Spec2Model ----
(***************************************************************************)
(* Conway's Game of Life on a toroidal board (vkavsek/gol-bevy).           *)
(*                                                                         *)
(* The model follows src/src/life.rs: the Board index arithmetic, the      *)
(* neighbour table built by load_cell_board, the two chained FixedUpdate   *)
(* systems that advance one generation, the pointer observers and the      *)
(* keyboard system that edit the board in Setup, and the GameState         *)
(* machine driven by toggle_setup_and_running.                             *)
(*                                                                         *)
(* One frame of the engine's Main schedule is modelled as the sequence     *)
(*   PreUpdate (pointer observers) -> StateTransition                      *)
(*   -> RunFixedMainLoop (FixedUpdate x n) -> Update -> PreUpdate ...      *)
(* with pc naming the schedule or the system that runs next.               *)
(* Cell entities are identified with their spawn index 0 .. size*size-1.   *)
(* Rust arrays are 0-based; the 8-entry neighbour arrays are TLA+           *)
(* sequences, so entry k of the source is element k+1 here.                *)
(* Board.size is a u32; every product formed here stays far below 2^32,    *)
(* so the u32 arithmetic is written without reduction. An index handed to  *)
(* idx_to_cell_coord is a usize of 64 bits, which the method casts to u32; *)
(* it is written as its two 32-bit words.                                  *)
(* The engine model runs each system of the generation pair as one step;   *)
(* a second model runs the same pair one entity of the query iteration at  *)
(* a time, in every order, with todo the entities still to be yielded; a   *)
(* third runs the FixedUpdate runs of one frame in Running from any board. *)
(* Meshes, materials, borders and the camera are not modelled.             *)
(***************************************************************************)
EXTENDS Integers, Sequences, FiniteSets, TLC

VARIABLES
    size,        \* Board.size
    state,       \* State<GameState>
    next_state,  \* NextState<GameState>: "Unchanged" or the pending state
    current,     \* entity -> CurrentAlive
    future,      \* entity -> FutureAlive (Option<bool>)
    changed,     \* entity -> FutureAlive written since update_cell_current_life last ran
    neighbours,  \* entity -> Neighbours ([Entity; 8])
    pc,          \* the schedule or system that runs next
    ticks_due,   \* FixedUpdate runs still owed in this frame
    probe,       \* last direct call of a Board method: [fn, arg, ret]
    todo         \* entities the running system's query iteration has yet to yield

vars == <<size, state, next_state, current, future, changed, neighbours,
          pc, ticks_due, probe, todo>>

----------------------------------------------------------------------------
(* Bounds *)

\* board sizes of the full engine model: 1 .. MaxSize
MaxSize == 2
\* FixedUpdate runs per frame: 0 .. MaxTicksPerFrame
MaxTicksPerFrame == 1
\* board sizes of the Board method model: 1 .. MaxBoardSize
MaxBoardSize == 8
\* high words of the indices given to idx_to_cell_coord: 0 .. MaxHighWord
MaxHighWord == 1
\* board sizes of the per-entity model of a generation: 1 .. MaxStepSize
MaxStepSize == 2
\* the model of a frame in Running starts from every board of the sizes
\* 1 .. MaxRunSize
MaxRunSize == 3
\* and, on the board of size MaxRunSize + 1, from every board with at most
\* this many live cells
MaxLive == 3
\* FixedUpdate runs owed by that frame
MaxRunTicks == 2

----------------------------------------------------------------------------
(* Option<bool> *)

None == << >>
Some(b) == <<b>>

(* GameState, src/src/state.rs *)
GameState == {"Load", "Setup", "Running"}
GameStateDefault == "Load"

Unchanged == "Unchanged"

\* an entity that is not a cell (a border): query.get_mut fails on it
BorderEntity == -1

uvec2(x, y) == [x |-> x, y |-> y]
ivec2(x, y) == [x |-> x, y |-> y]

Cells(n) == 0 .. (n * n - 1)

\* the usize hi * 2^32 + lo, with lo < 2^32
usize(hi, lo) == [hi |-> hi, lo |-> lo]

\* idx as u32: the low 32 bits
as_u32(idx) == idx.lo

----------------------------------------------------------------------------
(* impl Board *)

\* faulty variant: the coordinate is not reduced modulo the size
cell_coord_to_idx_unwrapped(n, cell_coord) == cell_coord.y * n + cell_coord.x

cell_coord_to_idx(n, cell_coord) ==
    (cell_coord.y % n) * n + (cell_coord.x % n)

\* faulty variant: the two axes exchanged
idx_to_cell_coord_swapped(n, idx) ==
    uvec2(as_u32(idx) \div n, as_u32(idx) % n)

\* uvec2(idx as u32 % self.size, idx as u32 / self.size)
idx_to_cell_coord(n, idx) == uvec2(as_u32(idx) % n, as_u32(idx) \div n)

\* faulty variant: x in the outer loop
AllOffsetsColumnMajor ==
    [k \in 1 .. 9 |-> ivec2(((k - 1) \div 3) - 1, ((k - 1) % 3) - 1)]

\* (-1..=1).flat_map(|y| (-1..=1).map(move |x| ivec2(x, y)))
AllOffsets == [k \in 1 .. 9 |-> ivec2(((k - 1) % 3) - 1, ((k - 1) \div 3) - 1)]

\* .filter(|pos_offs| !(pos_offs.x == 0 && pos_offs.y == 0))
Offsets == SelectSeq(AllOffsets, LAMBDA o : ~(o.x = 0 /\ o.y = 0))

\* faulty variant: the edge clamps instead of wrapping
wrap_axis_clamped(n, p) ==
    IF p < 0 THEN 0 ELSE IF p >= n THEN n - 1 ELSE p

\* faulty variant: both edges wrap to 0
wrap_axis_to_zero(n, p) ==
    IF p < 0 THEN 0 ELSE IF p >= n THEN 0 ELSE p

\* one axis of the wrap in neighbour_indices; pos.as_uvec2() is kept only
\* when neither branch overwrites it
wrap_axis(n, p) ==
    IF p < 0 THEN n - 1 ELSE IF p >= n THEN 0 ELSE p

neighbour_indices(n, cell_coord) ==
    [i \in 1 .. Len(Offsets) |->
        LET pos == ivec2(cell_coord.x + Offsets[i].x, cell_coord.y + Offsets[i].y)
            neigh_pos == uvec2(wrap_axis(n, pos.x), wrap_axis(n, pos.y))
        IN  cell_coord_to_idx(n, neigh_pos)]

----------------------------------------------------------------------------
(* the generation rule *)

\* immutable_query.many(**neighbours).map(..).iter().sum::<u8>()
RECURSIVE SumAlive(_, _, _)
SumAlive(cur, neigh, k) ==
    IF k = 0 THEN 0
    ELSE (IF cur[neigh[k]] THEN 1 ELSE 0) + SumAlive(cur, neigh, k - 1)

nval(cur, neigh) == SumAlive(cur, neigh, Len(neigh))

\* faulty variant: a count of 4 or more leaves the cell as it is
StagedNoOvercrowding(nv, fut) ==
    IF nv = 3 THEN Some(TRUE)
    ELSE IF nv = 2 \/ nv >= 4 THEN fut
    ELSE Some(FALSE)

\* match nval { 3 => Some(true), 2 => (), _ => Some(false) }
Staged(nv, fut) ==
    IF nv = 3 THEN Some(TRUE)
    ELSE IF nv = 2 THEN fut
    ELSE Some(FALSE)

\* faulty variant: only the write of Some(true) is seen by change detection
WritesOnBirth(nv) == nv = 3

\* whether the match arm writes through the Mut<FutureAlive>
Writes(nv) == nv # 2

\* faulty variant: the staged value is never reset
ClearedNever(visited, fut) == fut

\* faulty variant: only births are committed
CommittedUnlessDying(visited, fut, cur) ==
    IF visited /\ fut = Some(TRUE) THEN TRUE ELSE cur

\* faulty variant: no staged value read as dead (unwrap_or(false))
CommittedOrDead(visited, fut, cur) ==
    IF visited THEN fut = Some(TRUE) ELSE cur

\* update_cell_current_life, the body for one entity; visited: the entity
\* passes the Changed<FutureAlive> filter
Committed(visited, fut, cur) ==
    IF visited /\ fut # None THEN fut[1] ELSE cur

Cleared(visited, fut) ==
    IF visited /\ fut # None THEN None ELSE fut

----------------------------------------------------------------------------
(* run conditions, LifePlugin::build *)

\* faulty variant: the run condition dropped
FixedUpdateAlways(s) == TRUE

FixedUpdateRunIf(s) == s = "Running"

SetupKbdRunIf(s) == s = "Setup"

ToggleRunIf(enter, s) == enter /\ (s = "Running" \/ s = "Setup")

\* faulty variant: the state check dropped
ObserverAlways(s) == TRUE

\* cells_set_life_on: matches!(state.get(), GameState::Setup)
ObserverAccepts(s) == s = "Setup"

\* faulty variant: both arms set Running
ToggleStuck(s) == "Running"

\* faulty variant: the arm for Setup missing
ToggleTargetNoSetupArm(s) ==
    IF s = "Running" THEN "Setup" ELSE "unreachable"

\* toggle_setup_and_running: the match on state.get(); the last arm is
\* unreachable!()
ToggleTarget(s) ==
    IF s = "Setup" THEN "Running"
    ELSE IF s = "Running" THEN "Setup"
    ELSE "unreachable"

\* faulty variant: the board starts running
LoadTargetRunning == "Running"

\* load_cell_board: game_state.set(GameState::Setup)
LoadTarget == "Setup"

----------------------------------------------------------------------------
(* initial state: App built, no entity spawned yet *)

NoProbe == [fn |-> "none", arg |-> 0, ret |-> 0]

InitWith(sizes) ==
    /\ size \in sizes
    /\ state = GameStateDefault
    /\ next_state = Unchanged
    /\ current = << >>
    /\ future = << >>
    /\ changed = << >>
    /\ neighbours = << >>
    /\ pc = "OnEnterLoad"
    /\ ticks_due = 0
    /\ probe = NoProbe
    /\ todo = {}

Init == InitWith(1 .. MaxSize)

----------------------------------------------------------------------------
(* systems *)

\* OnEnter(GameState::Load): load_cell_board
load_cell_board ==
    /\ pc = "OnEnterLoad"
    /\ current' = [i \in Cells(size) |-> FALSE]
    /\ future' = [i \in Cells(size) |-> None]
    /\ changed' = [i \in Cells(size) |-> TRUE]
    /\ neighbours' =
          [i \in Cells(size) |->
              neighbour_indices(size, idx_to_cell_coord(size, usize(0, i)))]
    /\ next_state' = LoadTarget
    /\ pc' = "PreUpdate"
    /\ UNCHANGED <<size, state, ticks_due, probe, todo>>

\* faulty variant: the cell is set alive instead of flipped
cells_set_life_on_alive(entity) ==
    /\ pc = "PreUpdate"
    /\ IF ObserverAccepts(state) /\ entity \in DOMAIN current
       THEN current' = [current EXCEPT ![entity] = TRUE]
       ELSE current' = current
    /\ UNCHANGED <<size, state, next_state, future, changed, neighbours,
                   pc, ticks_due, probe, todo>>

\* the observer registered for Pointer<Down> and for Pointer<DragOver>,
\* triggered on entity
cells_set_life_on(entity) ==
    /\ pc = "PreUpdate"
    /\ IF ObserverAccepts(state) /\ entity \in DOMAIN current
       THEN current' = [current EXCEPT ![entity] = ~@]
       ELSE current' = current
    /\ UNCHANGED <<size, state, next_state, future, changed, neighbours,
                   pc, ticks_due, probe, todo>>

\* PreUpdate is over and the StateTransition schedule runs: apply a pending
\* NextState. RunFixedMainLoop follows; the number of FixedUpdate runs it
\* owes is set by the caller.
apply_state_transition ==
    /\ pc = "PreUpdate"
    /\ IF next_state # Unchanged
       THEN state' = next_state /\ next_state' = Unchanged
       ELSE UNCHANGED <<state, next_state>>
    /\ pc' = "FixedUpdate"
    /\ UNCHANGED <<size, current, future, changed, neighbours, probe, todo>>

\* one run of FixedUpdate: the run condition of the chained pair
FixedUpdate ==
    /\ pc = "FixedUpdate"
    /\ ticks_due > 0
    /\ ticks_due' = ticks_due - 1
    /\ pc' = IF FixedUpdateRunIf(state) THEN "update_cell_future_life" ELSE pc
    /\ UNCHANGED <<size, state, next_state, current, future, changed,
                   neighbours, probe, todo>>

FixedMainLoopDone ==
    /\ pc = "FixedUpdate"
    /\ ticks_due = 0
    /\ pc' = "handle_setup_kbd"
    /\ UNCHANGED <<size, state, next_state, current, future, changed,
                   neighbours, ticks_due, probe, todo>>

update_cell_future_life ==
    /\ pc = "update_cell_future_life"
    /\ future' = [i \in DOMAIN future |->
                    Staged(nval(current, neighbours[i]), future[i])]
    /\ changed' = [i \in DOMAIN changed |->
                    changed[i] \/ Writes(nval(current, neighbours[i]))]
    /\ pc' = "update_cell_current_life"
    /\ UNCHANGED <<size, state, next_state, current, neighbours,
                   ticks_due, probe, todo>>

update_cell_current_life ==
    /\ pc = "update_cell_current_life"
    /\ current' = [i \in DOMAIN current |->
                    Committed(changed[i], future[i], current[i])]
    /\ future' = [i \in DOMAIN future |-> Cleared(changed[i], future[i])]
    /\ changed' = [i \in DOMAIN changed |-> FALSE]
    /\ pc' = "FixedUpdate"
    /\ UNCHANGED <<size, state, next_state, neighbours, ticks_due, probe, todo>>

\* Update: handle_setup_kbd and toggle_setup_and_running are unordered in
\* the schedule; they touch disjoint data (CurrentAlive against NextState)
\* and both read only State, so they are run in the order of the tuple.
\* key_r: keyboard_input.just_pressed(KeyCode::KeyR); alive: fastrand::bool()
\* per cell
handle_setup_kbd(key_r, alive) ==
    /\ pc = "handle_setup_kbd"
    /\ IF SetupKbdRunIf(state) /\ key_r
       THEN current' = alive
       ELSE current' = current
    /\ pc' = "toggle_setup_and_running"
    /\ UNCHANGED <<size, state, next_state, future, changed, neighbours,
                   ticks_due, probe, todo>>

\* faulty variant: the toggle also clears the board
toggle_setup_and_running_clearing(enter) ==
    /\ pc = "toggle_setup_and_running"
    /\ IF ToggleRunIf(enter, state)
       THEN /\ next_state' = ToggleTarget(state)
            /\ current' = [i \in DOMAIN current |-> FALSE]
       ELSE /\ next_state' = next_state
            /\ current' = current
    /\ pc' = "PreUpdate"
    /\ UNCHANGED <<size, state, future, changed, neighbours,
                   ticks_due, probe, todo>>

\* enter: input_just_pressed(KeyCode::Enter)
toggle_setup_and_running(enter) ==
    /\ pc = "toggle_setup_and_running"
    /\ IF ToggleRunIf(enter, state)
       THEN next_state' = ToggleTarget(state)
       ELSE next_state' = next_state
    /\ pc' = "PreUpdate"
    /\ UNCHANGED <<size, state, current, future, changed, neighbours,
                   ticks_due, probe, todo>>

----------------------------------------------------------------------------
(* the engine driven by pointer and keyboard *)

\* a pointer event on any entity, on any board
PointerEvent ==
    /\ pc = "PreUpdate"
    /\ \E entity \in DOMAIN current \cup {BorderEntity} :
          cells_set_life_on(entity)

\* R not pressed in this frame
NoKeyR == handle_setup_kbd(FALSE, current)

\* R pressed in this frame, on any board; fastrand::bool() is called only
\* when the system runs, and then every outcome is drawn
KeyR ==
    /\ pc = "handle_setup_kbd"
    /\ IF SetupKbdRunIf(state)
       THEN \E alive \in [DOMAIN current -> BOOLEAN] :
               handle_setup_kbd(TRUE, alive)
       ELSE handle_setup_kbd(TRUE, current)

KeyEnter == \E enter \in BOOLEAN : toggle_setup_and_running(enter)

\* Time<Fixed> owes n runs of FixedUpdate in this frame's RunFixedMainLoop
Ticks ==
    \E n \in 0 .. MaxTicksPerFrame :
        apply_state_transition /\ ticks_due' = n

Next ==
    \/ load_cell_board
    \/ PointerEvent
    \/ Ticks
    \/ FixedUpdate
    \/ FixedMainLoopDone
    \/ update_cell_future_life
    \/ update_cell_current_life
    \/ NoKeyR
    \/ KeyR
    \/ KeyEnter

Spec == Init /\ [][Next]_vars

----------------------------------------------------------------------------
(* the Board methods called directly, as test::board_works does *)

\* coordinates offered to the methods: the board and, on each axis, the
\* next board and one step of the one after
CoordInputs(n) == {uvec2(x, y) : x \in 0 .. (2 * n), y \in 0 .. (2 * n)}

\* indices offered to idx_to_cell_coord: the board and one step past it,
\* and the indices that differ from these by a multiple of 2^32
IdxInputs(n) == {usize(hi, lo) : hi \in 0 .. MaxHighWord, lo \in 0 .. (n * n)}

InRange(n, c) == c.x \in 0 .. (n - 1) /\ c.y \in 0 .. (n - 1)

\* idx lies in [0, n*n)
InBoard(n, idx) == idx.hi = 0 /\ idx.lo \in Cells(n)

BoardInit ==
    /\ size \in 1 .. MaxBoardSize
    /\ state = GameStateDefault
    /\ next_state = Unchanged
    /\ current = << >>
    /\ future = << >>
    /\ changed = << >>
    /\ neighbours = << >>
    /\ pc = "board_works"
    /\ ticks_due = 0
    /\ probe = NoProbe
    /\ todo = {}

Call(fn, arg, ret) ==
    /\ pc = "board_works"
    /\ probe' = [fn |-> fn, arg |-> arg, ret |-> ret]
    /\ UNCHANGED <<size, state, next_state, current, future, changed,
                   neighbours, pc, ticks_due, todo>>

call_cell_coord_to_idx ==
    \E c \in CoordInputs(size) :
        Call("cell_coord_to_idx", c, cell_coord_to_idx(size, c))

call_idx_to_cell_coord ==
    \E i \in IdxInputs(size) :
        Call("idx_to_cell_coord", i, idx_to_cell_coord(size, i))

call_neighbour_indices ==
    \E c \in CoordInputs(size) :
        Call("neighbour_indices", c, neighbour_indices(size, c))

BoardNext ==
    \/ call_cell_coord_to_idx
    \/ call_idx_to_cell_coord
    \/ call_neighbour_indices

BoardSpec == BoardInit /\ [][BoardNext]_vars

----------------------------------------------------------------------------
(* one generation after another in Running, one entity of a query          *)
(* iteration at a time. The order in which a query yields its entities is  *)
(* not fixed by the engine: every order is taken.                          *)

\* the first FixedUpdate run in Running: any board left by Setup, no commit
\* has run yet
StepInit ==
    /\ size \in 1 .. MaxStepSize
    /\ state = "Running"
    /\ next_state = Unchanged
    /\ current \in [Cells(size) -> BOOLEAN]
    /\ future = [i \in Cells(size) |-> None]
    /\ changed = [i \in Cells(size) |-> TRUE]
    /\ neighbours =
          [i \in Cells(size) |->
              neighbour_indices(size, idx_to_cell_coord(size, usize(0, i)))]
    /\ pc = "update_cell_future_life"
    /\ ticks_due = 0
    /\ probe = NoProbe
    /\ todo = Cells(size)

\* faulty variant: a single buffer, the new value written to CurrentAlive
update_cell_future_life_in_place(entity) ==
    /\ pc = "update_cell_future_life"
    /\ entity \in todo
    /\ LET nv == nval(current, neighbours[entity])
       IN  current' = [current EXCEPT ![entity] = (nv = 3) \/ (nv = 2 /\ @)]
    /\ todo' = todo \ {entity}
    /\ UNCHANGED <<size, state, next_state, future, changed, neighbours, pc,
                   ticks_due, probe>>

\* update_cell_future_life, the loop body for one entity
update_cell_future_life_iter(entity) ==
    /\ pc = "update_cell_future_life"
    /\ entity \in todo
    /\ LET nv == nval(current, neighbours[entity])
       IN  /\ future' = [future EXCEPT ![entity] = Staged(nv, @)]
           /\ changed' = [changed EXCEPT ![entity] = @ \/ Writes(nv)]
    /\ todo' = todo \ {entity}
    /\ UNCHANGED <<size, state, next_state, current, neighbours, pc,
                   ticks_due, probe>>

\* faulty variant: the pair not chained, the commit starts at any time
update_cell_future_life_unchained ==
    /\ pc = "update_cell_future_life"
    /\ pc' = "update_cell_current_life"
    /\ todo' = {i \in DOMAIN changed : changed[i]}
    /\ UNCHANGED <<size, state, next_state, current, future, changed,
                   neighbours, ticks_due, probe>>

\* the loop of update_cell_future_life is over; chained after it,
\* update_cell_current_life starts to iterate the entities that pass
\* Changed<FutureAlive>
update_cell_future_life_end ==
    /\ pc = "update_cell_future_life"
    /\ todo = {}
    /\ pc' = "update_cell_current_life"
    /\ todo' = {i \in DOMAIN changed : changed[i]}
    /\ UNCHANGED <<size, state, next_state, current, future, changed,
                   neighbours, ticks_due, probe>>

\* update_cell_current_life, the loop body for one entity
update_cell_current_life_iter(entity) ==
    /\ pc = "update_cell_current_life"
    /\ entity \in todo
    /\ current' = [current EXCEPT ![entity] = Committed(TRUE, future[entity], @)]
    /\ future' = [future EXCEPT ![entity] = Cleared(TRUE, @)]
    /\ todo' = todo \ {entity}
    /\ UNCHANGED <<size, state, next_state, changed, neighbours, pc,
                   ticks_due, probe>>

\* the loop of update_cell_current_life is over: what was written up to
\* here, its own writes included, is not new to its next run
update_cell_current_life_end ==
    /\ pc = "update_cell_current_life"
    /\ todo = {}
    /\ changed' = [i \in DOMAIN changed |-> FALSE]
    /\ pc' = "FixedUpdate"
    /\ UNCHANGED <<size, state, next_state, current, future, neighbours,
                   ticks_due, probe, todo>>

\* the next FixedUpdate run: update_cell_future_life starts to iterate
\* every cell
update_cell_future_life_begin ==
    /\ pc = "FixedUpdate"
    /\ FixedUpdateRunIf(state)
    /\ pc' = "update_cell_future_life"
    /\ todo' = DOMAIN future
    /\ UNCHANGED <<size, state, next_state, current, future, changed,
                   neighbours, ticks_due, probe>>

StepNext ==
    \/ \E entity \in todo : update_cell_future_life_iter(entity)
    \/ update_cell_future_life_end
    \/ \E entity \in todo : update_cell_current_life_iter(entity)
    \/ update_cell_current_life_end
    \/ update_cell_future_life_begin

StepSpec == StepInit /\ [][StepNext]_vars

----------------------------------------------------------------------------
(* the RunFixedMainLoop of one frame in Running, each system of the        *)
(* generation pair as one step, from any board                             *)

\* the sets of at most k elements of S
RECURSIVE LiveSets(_, _)
LiveSets(S, k) ==
    IF k = 0 THEN {{}}
    ELSE LET P == LiveSets(S, k - 1)
         IN  P \cup {p \cup {x} : p \in P, x \in S}

\* the boards of size n with at most k live cells
BoardsWith(n, k) == {[i \in Cells(n) |-> i \in s] : s \in LiveSets(Cells(n), k)}

\* a RunFixedMainLoop in Running that owes MaxRunTicks FixedUpdate runs:
\* any board left by Setup; either no commit has run yet, or the last one
\* has seen every write
RunInit ==
    /\ size \in 1 .. (MaxRunSize + 1)
    /\ state = "Running"
    /\ next_state = Unchanged
    /\ neighbours =
          [i \in Cells(size) |->
              neighbour_indices(size, idx_to_cell_coord(size, usize(0, i)))]
    /\ future = [i \in Cells(size) |-> None]
    /\ pc = "FixedUpdate"
    /\ probe = NoProbe
    /\ todo = {}
    /\ ticks_due = MaxRunTicks
    /\ changed \in {[i \in Cells(size) |-> b] : b \in BOOLEAN}
    /\ current \in (IF size <= MaxRunSize
                    THEN [Cells(size) -> BOOLEAN]
                    ELSE BoardsWith(size, MaxLive))

RunNext ==
    \/ FixedUpdate
    \/ update_cell_future_life
    \/ update_cell_current_life
    \/ FixedMainLoopDone

RunSpec == RunInit /\ [][RunNext]_vars

----------------------------------------------------------------------------
(* vocabulary of the properties *)

StepPcs == {"update_cell_future_life", "update_cell_current_life"}

\* how many of the 8 neighbour-table entries of cell i are alive in cur
LiveEntries(cur, i) == Cardinality({k \in 1 .. 8 : cur[neighbours[i][k]]})

LiveCells(cur) == {i \in DOMAIN cur : cur[i]}

\* the linear index of the coordinate (x mod size, y mod size)
At(x, y) == (y % size) * size + (x % size)

\* the live cells of the blinker around (x, y), lying and standing
Horizontal(x, y) == {At(x + size - 1, y), At(x, y), At(x + 1, y)}

Vertical(x, y) == {At(x, y + size - 1), At(x, y), At(x, y + 1)}

Axis == 0 .. (size - 1)

\* cells a and b do not touch, through the wrap or otherwise: they are two
\* cells and b is not among the neighbours of a
Apart(a, b) == a # b /\ \A k \in 1 .. 8 : neighbours[a][k] # b

\* the blinker around (x, y) does not touch itself through the wrap
HorizontalFits(x, y) == Apart(At(x + size - 1, y), At(x + 1, y))

VerticalFits(x, y) == Apart(At(x, y + size - 1), At(x, y + 1))

\* the value the rule stages for cell i on the board cur, in a slot that
\* held None
RuleStaged(cur, i) ==
    LET n == LiveEntries(cur, i)
    IN  IF n = 3 THEN Some(TRUE) ELSE IF n = 2 THEN None ELSE Some(FALSE)

----------------------------------------------------------------------------
(* C1: one generation step (update_cell_future_life, which leaves every    *)
(* CurrentAlive as it was, followed by update_cell_current_life) runs only *)
(* in Running and leaves every cell alive if exactly 3 of its 8            *)
(* neighbour-table entries were alive before the step, as it was if        *)
(* exactly 2 were, and dead otherwise; a live cell with 2 or 3 live        *)
(* entries stays alive and a lone live cell is dead after the step.        *)
C1_GenerationRule ==
    [][ /\ (pc = "update_cell_future_life" =>
               /\ state = "Running"
               /\ current' = current
               /\ pc' = "update_cell_current_life")
        /\ (pc = "update_cell_current_life" =>
               /\ state = "Running"
               /\ \A i \in DOMAIN current :
                     LET n == LiveEntries(current, i)
                     IN  /\ n = 3 => current'[i]
                         /\ n = 2 => current'[i] = current[i]
                         /\ n \notin {2, 3} => ~current'[i]
                         /\ (current[i] /\ n \in {2, 3}) => current'[i]
                         /\ LiveCells(current) = {i} => ~current'[i])
      ]_vars

\* a step in progress on a crowded board whose cells have 8 neighbours
\* each: a live cell with 4 or more live entries is staged to die and a
\* dead cell with 4 or more is staged to stay dead
C1_Witness ==
    /\ pc = "update_cell_current_life"
    /\ size >= 3
    /\ \E i, j \in DOMAIN current :
          /\ current[i] /\ LiveEntries(current, i) >= 4 /\ future[i] = Some(FALSE)
          /\ ~current[j] /\ LiveEntries(current, j) >= 4 /\ future[j] = Some(FALSE)

(* C2: on a board where the blinker does not touch itself through the     *)
(* wrap, a generation step turns the three horizontally adjacent live      *)
(* cells around any centre into the three vertically adjacent cells        *)
(* through that centre, and turns the vertical three back into the         *)
(* horizontal three, so two consecutive steps restore CurrentAlive of      *)
(* every cell.                                                             *)
C2_Blinker ==
    [][ /\ (pc = "update_cell_future_life" => current' = current)
        /\ (pc = "update_cell_current_life" =>
               LET live == LiveCells(current)
               IN  \A x, y \in Axis :
                      /\ (live = Horizontal(x, y) /\ HorizontalFits(x, y)) =>
                            LiveCells(current') = Vertical(x, y)
                      /\ (live = Vertical(x, y) /\ VerticalFits(x, y)) =>
                            LiveCells(current') = Horizontal(x, y))
      ]_vars

\* the second step of the period is about to commit: the board holds a
\* vertical blinker, clear of the wrap, after a generation has already
\* been committed
C2_Witness ==
    /\ pc = "update_cell_current_life"
    /\ \E x, y \in Axis :
          LiveCells(current) = Vertical(x, y) /\ VerticalFits(x, y)
    /\ \E i \in DOMAIN current : ~changed[i]

(* C3: a generation is applied as a whole. Outside a step no cell holds a  *)
(* staged value; the step is entered with CurrentAlive untouched, the      *)
(* compute system leaves CurrentAlive untouched, and the commit system     *)
(* gives every cell its staged value at once, clears every staged value    *)
(* and ends the step. So a state outside a step shows the generation       *)
(* before the step or the one after it, never a mixture.                   *)
C3_Atomicity ==
    [][ /\ (pc \notin StepPcs =>
               /\ \A i \in DOMAIN future : future[i] = None
               /\ pc' \in StepPcs =>
                     (pc' = "update_cell_future_life" /\ current' = current))
        /\ (pc = "update_cell_future_life" =>
               /\ pc' = "update_cell_current_life"
               /\ current' = current)
        /\ (pc = "update_cell_current_life" =>
               /\ pc' \notin StepPcs
               /\ \A i \in DOMAIN current :
                     /\ current'[i] =
                           (IF future[i] = None THEN current[i] ELSE future[i][1])
                     /\ future'[i] = None)
      ]_vars

\* a step in progress, on a board set up by pointer or keyboard, in which
\* two live cells are staged to die: a commit of one without the other
\* would expose a mixture of two generations
C3_Witness ==
    /\ pc = "update_cell_current_life"
    /\ \E i, j \in DOMAIN current :
          /\ i # j
          /\ current[i] /\ future[i] = Some(FALSE)
          /\ current[j] /\ future[j] = Some(FALSE)

(* C4: while the mode is Running, the pointer observers (toggle_cell) and  *)
(* the keyboard system (randomize on R) leave CurrentAlive of every cell   *)
(* unchanged.                                                              *)
C4_RejectedInRunning ==
    [][ (state = "Running" /\ pc \in {"PreUpdate", "handle_setup_kbd"}) =>
            current' = current ]_vars

\* a pointer event can arrive on a board with live cells while Running
C4_Witness ==
    /\ state = "Running"
    /\ pc = "PreUpdate"
    /\ LiveCells(current) # {}

(* C5: the generation systems run only in Running: a FixedUpdate run in    *)
(* Setup or Load changes no CurrentAlive and no staged value and starts no *)
(* step, and no step is ever in progress outside Running.                  *)
C5_StepperOnlyInRunning ==
    [][ /\ (state # "Running" /\ pc = "FixedUpdate") =>
               (current' = current /\ future' = future /\ pc' \notin StepPcs)
        /\ pc' \in StepPcs => state' = "Running"
      ]_vars

\* a FixedUpdate run is due in Setup on a board with live cells
C5_Witness ==
    /\ state = "Setup"
    /\ pc = "FixedUpdate"
    /\ ticks_due > 0
    /\ LiveCells(current) # {}

(* C6: the mode starts at Load; it changes only Load -> Setup,             *)
(* Setup -> Running and Running -> Setup; Load -> Setup is requested by    *)
(* load_cell_board alone and the other two by the toggle system alone;     *)
(* once the mode has left Load it is never Load again.                     *)
C6_ModeLifecycle ==
    /\ state = "Load"
    /\ [][ /\ state' # state =>
                 /\ <<state, state'>> \in {<<"Load", "Setup">>,
                                           <<"Setup", "Running">>,
                                           <<"Running", "Setup">>}
                 /\ state' = next_state
           /\ state # "Load" => state' # "Load"
           /\ next_state' # next_state =>
                 \/ next_state' = Unchanged /\ state' = next_state
                 \/ pc = "OnEnterLoad" /\ state = "Load" /\ next_state' = "Setup"
                 \/ /\ pc = "toggle_setup_and_running"
                    /\ <<state, next_state'>> \in {<<"Setup", "Running">>,
                                                   <<"Running", "Setup">>}
         ]_vars

\* back in Setup after at least one generation was run
C6_Witness ==
    /\ state = "Setup"
    /\ next_state = Unchanged
    /\ DOMAIN changed # {}
    /\ \A i \in DOMAIN changed : ~changed[i]

(* C7: a toggle command always asks for the other of Setup and Running,    *)
(* it is issued with no transition pending, and the request is applied     *)
(* before the next toggle can be issued and is the only way the mode       *)
(* changes after Load; so two consecutive toggles restore the mode.        *)
C7_ToggleTwice ==
    [][ /\ (pc = "toggle_setup_and_running" /\ next_state' # next_state) =>
               /\ next_state = Unchanged
               /\ state \in {"Setup", "Running"}
               /\ next_state' \in {"Setup", "Running"} \ {state}
               /\ state' = state
        /\ (pc = "PreUpdate" /\ pc' # pc /\ next_state # Unchanged) =>
               (state' = next_state /\ next_state' = Unchanged)
        /\ (state # "Load" /\ state' # state) =>
               (pc = "PreUpdate" /\ state' = next_state)
      ]_vars

\* Running with a toggle back to Setup pending: the second toggle of a pair
C7_Witness ==
    /\ state = "Running"
    /\ next_state = "Setup"
    /\ pc = "PreUpdate"

----------------------------------------------------------------------------
(* the Board methods *)

Distinct(seq) ==
    \A j, k \in 1 .. Len(seq) : j # k => seq[j] # seq[k]

NeighbourCall ==
    /\ probe.fn = "neighbour_indices"
    /\ InRange(size, probe.arg)

(* C8 as stated: for every size N > 0 and every cell the 8 neighbour       *)
(* indices are pairwise distinct and each lies in [0, N*N).                *)
C8_DistinctForAllSizes ==
    NeighbourCall =>
        /\ Len(probe.ret) = 8
        /\ \A k \in 1 .. 8 : probe.ret[k] \in Cells(size)
        /\ Distinct(probe.ret)

(* C8 amended: for every size N > 0 and every cell each of the 8           *)
(* neighbour indices lies in [0, N*N), and for N >= 3 they are pairwise    *)
(* distinct.                                                               *)
C8_DistinctFromSize3 ==
    NeighbourCall =>
        /\ Len(probe.ret) = 8
        /\ \A k \in 1 .. 8 : probe.ret[k] \in Cells(size)
        /\ size >= 3 => Distinct(probe.ret)

\* the neighbours of a corner cell of a board of size 3 or more
C8_Witness ==
    /\ NeighbourCall
    /\ size >= 3
    /\ probe.arg = uvec2(0, 0)

\* the offsets of the 3 x 3 neighbourhood in row-major order, centre skipped
RowMajor ==
    << <<-1, -1>>, <<0, -1>>, <<1, -1>>,
       <<-1, 0>>,             <<1, 0>>,
       <<-1, 1>>,  <<0, 1>>,  <<1, 1>> >>

(* C9: for every size N and every cell (x, y), entry k of                  *)
(* neighbour_indices is the linear index of ((x+dx) mod N, (y+dy) mod N)   *)
(* for the k-th offset (dx, dy) of the row-major 3 x 3 scan without the    *)
(* centre; for N = 8 the neighbours of (0,1) are (7,0), (0,0), (1,0),      *)
(* (7,1), (1,1), (7,2), (0,2), (1,2) in this order.                        *)
C9_RowMajorTorus ==
    NeighbourCall =>
        /\ Len(probe.ret) = 8
        /\ \A k \in 1 .. 8 :
              probe.ret[k] =
                 ((probe.arg.y + RowMajor[k][2] + size) % size) * size
                 + ((probe.arg.x + RowMajor[k][1] + size) % size)
        /\ (size = 8 /\ probe.arg = uvec2(0, 1)) =>
              probe.ret = <<7, 0, 1, 15, 9, 23, 16, 17>>

\* the call of test::board_works on the left edge of the 8 x 8 board
C9_Witness ==
    /\ NeighbourCall
    /\ size = 8
    /\ probe.arg = uvec2(0, 1)

(* C10: for every size N > 0, idx_to_cell_coord undoes cell_coord_to_idx   *)
(* on every coordinate of the board, and cell_coord_to_idx undoes          *)
(* idx_to_cell_coord on every index in [0, N*N); both land inside the      *)
(* board, so the two are inverse bijections.                               *)
C10_RoundTrip ==
    /\ (probe.fn = "cell_coord_to_idx" /\ InRange(size, probe.arg)) =>
          /\ probe.ret \in Cells(size)
          /\ idx_to_cell_coord(size, usize(0, probe.ret)) = probe.arg
    /\ (probe.fn = "idx_to_cell_coord" /\ InBoard(size, probe.arg)) =>
          /\ InRange(size, probe.ret)
          /\ usize(0, cell_coord_to_idx(size, probe.ret)) = probe.arg

\* the last index of the 8 x 8 board maps to (7, 7), as in test::board_works
C10_Witness ==
    /\ probe.fn = "idx_to_cell_coord"
    /\ size = 8
    /\ probe.arg = usize(0, 63)
    /\ probe.ret = uvec2(7, 7)

(* C11: cell_coord_to_idx maps every coordinate (x, y), also one with      *)
(* x >= N or y >= N, to the cell (x mod N, y mod N): a coordinate of the   *)
(* board gives y*N + x, a coordinate past the board gives the index of the *)
(* cell it wraps onto, however many boards away, and the result always     *)
(* lies in [0, N*N); for N = 8, (8,8) -> 0, (7,8) -> 7 and (8,7) -> 56.    *)
C11_CoordWraps ==
    probe.fn = "cell_coord_to_idx" =>
        LET x == probe.arg.x
            y == probe.arg.y
            rx == CHOOSE r \in Axis : \E q \in 0 .. x : x = q * size + r
            ry == CHOOSE r \in Axis : \E q \in 0 .. y : y = q * size + r
        IN  /\ probe.ret \in Cells(size)
            /\ InRange(size, probe.arg) => probe.ret = y * size + x
            /\ probe.ret = ry * size + rx
            /\ (size = 8 /\ probe.arg = uvec2(8, 8)) => probe.ret = 0
            /\ (size = 8 /\ probe.arg = uvec2(7, 8)) => probe.ret = 7
            /\ (size = 8 /\ probe.arg = uvec2(8, 7)) => probe.ret = 56

\* the call of test::board_works one column past the 8 x 8 board
C11_Witness ==
    /\ probe.fn = "cell_coord_to_idx"
    /\ size = 8
    /\ probe.arg = uvec2(8, 7)
    /\ probe.ret = 56

(* C12: a coordinate outside the board given to cell_coord_to_idx, or an   *)
(* index outside [0, N*N) given to idx_to_cell_coord, is answered with an  *)
(* InvalidIndex error: the call returns no index and no coordinate, and    *)
(* never a valid cell.                                                     *)
C12_InvalidIndex ==
    /\ (probe.fn = "cell_coord_to_idx" /\ ~InRange(size, probe.arg)) =>
          (probe.ret \notin Nat /\ probe.ret \notin Cells(size))
    /\ (probe.fn = "idx_to_cell_coord" /\ ~InBoard(size, probe.arg)) =>
          probe.ret \notin [x : Nat, y : Nat]

\* the index 2^32 + 1 given to the 8 x 8 board is answered with (1, 0),
\* the coordinate of cell 1
C12_Witness ==
    /\ probe.fn = "idx_to_cell_coord"
    /\ size = 8
    /\ probe.arg = usize(1, 1)
    /\ probe.ret = uvec2(1, 0)

----------------------------------------------------------------------------
(* the two phases of a generation, entity by entity *)

(* C13: inside one generation the commit overwrites no CurrentAlive until  *)
(* the compute phase has evaluated every cell: CurrentAlive changes only   *)
(* in steps of update_cell_current_life, that system starts only when      *)
(* update_cell_future_life has no cell left to evaluate, and at that       *)
(* moment the staged value of every cell is the one the rule gives on the  *)
(* board as it was when the step began, which is still untouched.          *)
C13_PhaseOrdering ==
    [][ /\ current' # current =>
               (pc = "update_cell_current_life" /\ pc' = pc)
        /\ pc' = "update_cell_current_life" =>
               \/ pc = "update_cell_current_life"
               \/ /\ pc = "update_cell_future_life"
                  /\ todo = {}
                  /\ current' = current
                  /\ \A i \in DOMAIN current :
                        future'[i] = RuleStaged(current', i)
      ]_vars

\* a commit in progress that gives a new value to a cell still to come
\* after another cell was already overwritten
C13_Witness ==
    /\ pc = "update_cell_current_life"
    /\ \E i, j \in DOMAIN current :
          /\ i \in todo /\ future[i] = Some(~current[i])
          /\ j \notin todo /\ changed[j] /\ future[j] = None
          /\ LiveEntries(current, j) \notin {2, 3}

(* C14: the compute phase gives the same staged buffer in whatever order   *)
(* it takes the cells: each of its steps evaluates one cell not yet taken, *)
(* leaves every CurrentAlive as it was, writes the staged slot of that     *)
(* cell only, and the staged buffer is at every moment a function of the   *)
(* board and of the set of cells evaluated so far: the rule's value for an *)
(* evaluated cell, None for the others.                                    *)
C14_OrderIndependent ==
    [][ pc = "update_cell_future_life" =>
          /\ \A i \in DOMAIN future :
                future[i] = (IF i \in todo THEN None ELSE RuleStaged(current, i))
          /\ current' = current
          /\ pc' = pc =>
                \E i \in todo :
                   /\ todo' = todo \ {i}
                   /\ future' = [future EXCEPT ![i] = RuleStaged(current, i)]
      ]_vars

\* the cell spawned first is the only one not yet evaluated, and staged
\* values were written for some of the others
C14_Witness ==
    /\ pc = "update_cell_future_life"
    /\ size > 1
    /\ todo = {0}
    /\ \E i, j \in DOMAIN future : future[i] = Some(FALSE) /\ future[j] = None /\ j # 0

----------------------------------------------------------------------------
(* the commit and the staged values *)

(* C15: update_cell_current_life gives every cell whose staged value is    *)
(* Some(v) the value v and resets that staged value to None, and leaves    *)
(* CurrentAlive of every cell whose staged value is None as it was.        *)
C15_CommitSemantics ==
    [][ pc = "update_cell_current_life" =>
          \A i \in DOMAIN current :
             /\ \A v \in BOOLEAN :
                   future[i] = Some(v) =>
                      (current'[i] = v /\ future'[i] = None)
             /\ future[i] = None =>
                   (current'[i] = current[i] /\ future'[i] = None)
      ]_vars

\* a commit is due in which live cells are staged to die and dead cells
\* hold no staged value
C15_Witness ==
    /\ pc = "update_cell_current_life"
    /\ \E i, j \in DOMAIN current :
          /\ current[i] /\ future[i] = Some(FALSE)
          /\ ~current[j] /\ future[j] = None

----------------------------------------------------------------------------
(* edits in Setup *)

\* the board cur with cell e flipped
Flipped(cur, e) == [i \in DOMAIN cur |-> IF i = e THEN ~cur[i] ELSE cur[i]]

(* C16: in Setup, whenever the pointer observers can run, a pointer event  *)
(* on any cell e is accepted and flips CurrentAlive of exactly e: every    *)
(* other CurrentAlive, every staged value, the mode and the pending mode   *)
(* stay as they are; flipping e again in the board so reached gives back   *)
(* the board before the first event.                                       *)
C16_ToggleCell ==
    (state = "Setup" /\ pc = "PreUpdate") =>
        \A e \in DOMAIN current :
            ENABLED ( /\ cells_set_life_on(e)
                      /\ current'[e] = ~current[e]
                      /\ \A i \in DOMAIN current \ {e} : current'[i] = current[i]
                      /\ future' = future
                      /\ state' = state
                      /\ next_state' = next_state
                      /\ Flipped(current', e) = current )

\* a second pointer event can arrive on the one cell that a first event
\* set alive, before any generation has run
C16_Witness ==
    /\ state = "Setup"
    /\ pc = "PreUpdate"
    /\ Cardinality(LiveCells(current)) = 1
    /\ \A i \in DOMAIN changed : changed[i]

----------------------------------------------------------------------------
(* the toggle system and Load *)

(* C17: toggle_setup_and_running never executes while the mode is Load.    *)
(* The Update schedule never runs in Load at all, since the transition to  *)
(* Setup requested by load_cell_board is applied before the first Update;  *)
(* the run condition of the system rejects Load whatever the key; every    *)
(* run of the system that requests a transition sees Setup or Running and  *)
(* requests a mode, so the unreachable!() arm is never taken and neither   *)
(* State nor NextState ever holds anything but a mode.                     *)
C17_NoToggleInLoad ==
    [][ /\ pc \in {"handle_setup_kbd", "toggle_setup_and_running"} =>
               state # "Load"
        /\ \A enter \in BOOLEAN : ~ToggleRunIf(enter, "Load")
        /\ (pc = "toggle_setup_and_running" /\ next_state' # next_state) =>
               (state \in {"Setup", "Running"} /\ next_state' \in GameState)
        /\ state' \in GameState
        /\ next_state' \in GameState \cup {Unchanged}
        /\ state = "Load" => next_state' \in {Unchanged, "Setup"}
      ]_vars

\* the toggle system has run in Setup and its request is pending
C17_Witness ==
    /\ state = "Setup"
    /\ next_state = "Running"
    /\ pc = "PreUpdate"

----------------------------------------------------------------------------
(* staged values between generations *)

(* C18: whenever no generation step is in progress, in Load, Setup and     *)
(* Running alike, the staged value of every cell is None; a step starts    *)
(* from staged values that are all None, so nothing staged in one          *)
(* generation is applied in a later one.                                   *)
C18_NoStagedValueOutsideStep ==
    /\ DOMAIN future = DOMAIN current
    /\ (pc \notin StepPcs \/ pc = "update_cell_future_life") =>
          \A i \in DOMAIN future : future[i] = None

\* Running between two generations, after a generation that changed the
\* board was committed
C18_Witness ==
    /\ state = "Running"
    /\ pc = "FixedUpdate"
    /\ ticks_due > 0
    /\ LiveCells(current) # {}
    /\ \A i \in DOMAIN changed : ~changed[i]
    /\ \E i \in DOMAIN current : LiveEntries(current, i) \notin {2, 3}

(* C19: the commit visits only the cells that pass Changed<FutureAlive>,   *)
(* and that is as good as visiting all: when the commit starts, and as     *)
(* long as it runs, every cell with a staged Some value is among the cells *)
(* still to be visited; each visit applies and resets the staged value of  *)
(* the visited cell and touches no other; when the commit ends no staged   *)
(* value is left and the board is the one an unfiltered commit gives.      *)
(* The resets written by the commit itself do not make it visit a cell in  *)
(* its next run: after the commit no cell counts as changed, and the       *)
(* compute phase marks exactly the cells whose staged value it changes.    *)
C19_FilteredCommit ==
    [][ /\ pc' = "update_cell_current_life" =>
               \A i \in DOMAIN future : future'[i] # None => i \in todo'
        /\ (pc = "update_cell_current_life" /\ pc' = pc) =>
               \E e \in todo :
                  /\ todo' = todo \ {e}
                  /\ current' = [current EXCEPT ![e] =
                                    IF future[e] = None THEN @ ELSE future[e][1]]
                  /\ future' = [future EXCEPT ![e] = None]
        /\ (pc = "update_cell_current_life" /\ pc' # pc) =>
               /\ \A i \in DOMAIN future : future[i] = None /\ ~changed'[i]
               /\ current' = current
        /\ (pc = "update_cell_future_life" /\ pc' = pc) =>
               \A i \in DOMAIN changed :
                  changed'[i] = (changed[i] \/ future'[i] # future[i])
      ]_vars

\* a commit of a later generation that skips a live cell, which the compute
\* phase left alone, and has yet to visit a cell with a staged value
C19_Witness ==
    /\ pc = "update_cell_current_life"
    /\ \E i, j \in DOMAIN current :
          /\ ~changed[i] /\ i \notin todo /\ future[i] = None /\ current[i]
          /\ j \in todo /\ future[j] = Some(FALSE)

----------------------------------------------------------------------------
(* the neighbour relation *)

\* how often v occurs among the entries of seq
Occurrences(seq, v) == Cardinality({k \in 1 .. Len(seq) : seq[k] = v})

(* C20: for every size N > 0 the neighbour relation is symmetric with      *)
(* multiplicity: cell j occurs among the 8 neighbours of cell i exactly as *)
(* often as cell i occurs among the 8 neighbours of cell j.                *)
C20_SymmetricNeighbours ==
    NeighbourCall =>
        LET i == probe.arg.y * size + probe.arg.x
        IN  \A j \in Cells(size) :
               Occurrences(probe.ret, j) =
                  Occurrences(
                     neighbour_indices(size, idx_to_cell_coord(size, usize(0, j))), i)

\* on the 2 x 2 board the cell diagonal to (0, 0) occurs 4 times among its
\* neighbours
C20_Witness ==
    /\ NeighbourCall
    /\ size = 2
    /\ probe.arg = uvec2(0, 0)
    /\ Occurrences(probe.ret, 3) = 4

----------------------------------------------------------------------------
(* the mode toggle and the board *)

(* C21: a mode toggle changes only the mode. A run of                      *)
(* toggle_setup_and_running, and the transition that applies its request,  *)
(* leave CurrentAlive and the staged value of every cell as they were.     *)
(* Once the cells are spawned in Load, CurrentAlive changes only by an     *)
(* edit in Setup or by the commit of a generation in Running, so           *)
(* Setup -> Running -> Setup with no generation in between                 *)
(* shows the board that was edited; the mode leaves Running only between   *)
(* generations, with no staged value pending, so Setup shows the last      *)
(* generation that was committed in full.                                  *)
C21_ToggleKeepsBoard ==
    [][ /\ pc = "toggle_setup_and_running" =>
               (current' = current /\ future' = future /\ state' = state)
        /\ state' # state =>
               /\ current' = current
               /\ future' = future
               /\ pc \notin StepPcs
               /\ \A i \in DOMAIN future : future[i] = None
        /\ current' # current =>
               \/ state = "Load" /\ pc = "OnEnterLoad"
               \/ state = "Setup" /\ pc \in {"PreUpdate", "handle_setup_kbd"}
               \/ state = "Running" /\ pc = "update_cell_current_life"
      ]_vars

\* Running with the toggle back to Setup requested, on a board with live
\* cells that a committed generation left
C21_Witness ==
    /\ state = "Running"
    /\ next_state = "Setup"
    /\ pc = "PreUpdate"
    /\ LiveCells(current) # {}
    /\ \A i \in DOMAIN changed : ~changed[i]

====
